---- MODULE Spec2Model ----
(***************************************************************************)
(* MCPServiceManager (src/linker/manager.py): the registry of MCP services *)
(* and the dispatcher of tool calls.  A coroutine runs atomically from one *)
(* await that suspends to the next, so every action below is one such      *)
(* segment of a coroutine.                                                 *)
(***************************************************************************)
EXTENDS Integers, Sequences, FiniteSets, TLC

VARIABLES
    services,      \* self.services: dict service_name -> ServiceInfo
    mcp_clients,   \* self.mcp_clients: dict service_name -> HttpStatelessClient
    remote,        \* the tool listing each remote MCP server offers now
    task,          \* the coroutines: where each is suspended, and its locals
    last           \* what the step just taken returned or issued (NoEvent if nothing)

vars == <<services, mcp_clients, remote, task, last>>

----------------------------------------------------------------------------
(* Input domains *)

Names == {"s1", "s2"}
ToolNames == {"t1", "t2"}
Urls == {"u1"}
NoUrl == "no_url"
NoDesc == "no_desc"
Descs == {NoDesc, "about"}
Tasks == {1, 2}
MaxClientIds == 8

Tool(n, d, s) == [name |-> n, description |-> d, inputSchema |-> s]

\* What a remote server can answer to list_tools: one tool, or a listing
\* that names that tool twice, with two descriptors, and adds a second tool.
Listings ==
    { <<Tool("t1", "d1", "sA")>>,
      <<Tool("t1", "d1", "sA"), Tool("t1", "d2", "sB"), Tool("t2", "d1", "sA")>> }

----------------------------------------------------------------------------
(* A Python dict: its items in insertion order, keys distinct *)

EmptyDict == <<>>

DictKeys(d) == {d[i].k : i \in DOMAIN d}

DictHas(d, k) == k \in DictKeys(d)

DictGet(d, k) == d[CHOOSE i \in DOMAIN d : d[i].k = k].v

DictSet(d, k, v) ==
    IF DictHas(d, k)
    THEN [i \in DOMAIN d |-> IF d[i].k = k THEN [k |-> k, v |-> v] ELSE d[i]]
    ELSE Append(d, [k |-> k, v |-> v])

KeyList(d) == [i \in DOMAIN d |-> d[i].k]

----------------------------------------------------------------------------
(* Events and coroutine records *)

NoEvent == [op |-> "none"]
NoClient == [name |-> "", url |-> NoUrl, id |-> 0]
NoSnap == [services |-> EmptyDict, mcp_clients |-> <<>>]
NoFn == [client |-> NoClient, tool |-> ""]

Snap == [services |-> services, mcp_clients |-> mcp_clients]

IdleTask ==
    [pc |-> "idle", op |-> "none", svc |-> "", url |-> NoUrl, desc |-> NoDesc,
     client |-> NoClient, tool |-> "", defs |-> <<>>, idx |-> 0,
     results |-> EmptyDict, log |-> <<>>, made |-> {}, listed |-> {},
     listok |-> {}, nget |-> 0, ncall |-> 0, fn |-> NoFn, pre |-> NoSnap]

AllIdle == \A t \in Tasks : task[t].pc = "idle"

\* self.mcp_clients is never iterated, so its order is not part of the
\* state: it is a map from the names it holds to their clients.
NoClients == <<>>

ClientsIn(clients) == {clients[k] : k \in DOMAIN clients}

SetClient(clients, name, client) ==
    [k \in DOMAIN clients \cup {name} |-> IF k = name THEN client ELSE clients[k]]

\* The client objects that are referenced: by the registry, by a local
\* variable of a coroutine, or by what a coroutine saw when it started
Referenced ==
    ClientsIn(mcp_clients)
    \cup {task[t].client : t \in Tasks}
    \cup UNION {ClientsIn(task[t].pre.mcp_clients) : t \in Tasks}

\* HttpStatelessClient(name=service_name, transport=..., url=mcp_url): a
\* new object, distinct from every referenced one of the same name and url
HttpStatelessClient(name, url) ==
    LET used == {c.id : c \in {r \in Referenced : r.name = name /\ r.url = url}}
    IN [name |-> name, url |-> url,
        id |-> CHOOSE n \in 1..MaxClientIds :
                  /\ n \notin used
                  /\ \A m \in 1..(n - 1) : m \in used]

----------------------------------------------------------------------------
(* register_service *)

\* description or f"MCP service: {service_name}"
DescriptionOf(name, desc) ==
    IF desc = NoDesc THEN <<"default", name>> ELSE <<"given", desc>>

\* for tool in all_tools: service_info.tools[tool.name] = tool
RECURSIVE ToolsOf(_)
ToolsOf(all_tools) ==
    IF all_tools = <<>>
    THEN EmptyDict
    ELSE LET n == Len(all_tools)
             tool == all_tools[n]
         IN DictSet(ToolsOf(SubSeq(all_tools, 1, n - 1)), tool.name, tool)

ServiceInfo(name, desc, all_tools) ==
    [name |-> name, description |-> DescriptionOf(name, desc),
     tools |-> ToolsOf(all_tools)]

\* A registry that forgot the duplicate check
RegisterConflictNever(svcs, name) == FALSE

\* if service_name in self.services: raise ValueError
RegisterConflict(svcs, name) == DictHas(svcs, name)

RegisterReturn(t, tk, err) ==
    [op |-> "register", task |-> t, svc |-> tk.svc, err |-> err,
     client |-> tk.client, pre |-> tk.pre]

\* A registry that builds and stores the client before the duplicate check
RegisterStartStoresFirst(t, name, url, desc) ==
    /\ task[t].pc = "idle"
    /\ LET tk == [IdleTask EXCEPT !.op = "register", !.svc = name, !.url = url,
                                  !.desc = desc, !.pre = Snap]
           client == HttpStatelessClient(name, url)
       IN /\ mcp_clients' = SetClient(mcp_clients, name, client)
          /\ IF RegisterConflict(services, name)
             THEN /\ last' = RegisterReturn(t, tk, "NameConflict")
                  /\ UNCHANGED <<services, remote, task>>
             ELSE /\ task' = [task EXCEPT ![t] =
                                 [tk EXCEPT !.pc = "reg_list", !.client = client]]
                  /\ last' = NoEvent
                  /\ UNCHANGED <<services, remote>>

\* A registry that keeps the client it already holds for the name
RegisterStartKeepsClient(t, name, url, desc) ==
    /\ task[t].pc = "idle"
    /\ LET tk == [IdleTask EXCEPT !.op = "register", !.svc = name, !.url = url,
                                  !.desc = desc, !.pre = Snap]
       IN IF RegisterConflict(services, name)
          THEN /\ last' = RegisterReturn(t, tk, "NameConflict")
               /\ UNCHANGED <<services, mcp_clients, remote, task>>
          ELSE LET client == HttpStatelessClient(name, url)
               IN /\ mcp_clients' = IF name \in DOMAIN mcp_clients
                                     THEN mcp_clients
                                     ELSE SetClient(mcp_clients, name, client)
                  /\ task' = [task EXCEPT ![t] =
                                 [tk EXCEPT !.pc = "reg_list", !.client = client]]
                  /\ last' = NoEvent
                  /\ UNCHANGED <<services, remote>>

\* The call up to its first suspension: the duplicate check, then the client
\* is built and stored, and the coroutine waits for list_tools.
RegisterStart(t, name, url, desc) ==
    /\ task[t].pc = "idle"
    /\ LET tk == [IdleTask EXCEPT !.op = "register", !.svc = name, !.url = url,
                                  !.desc = desc, !.pre = Snap]
       IN IF RegisterConflict(services, name)
          THEN /\ last' = RegisterReturn(t, tk, "NameConflict")
               /\ UNCHANGED <<services, mcp_clients, remote, task>>
          ELSE LET client == HttpStatelessClient(name, url)
               IN /\ mcp_clients' = SetClient(mcp_clients, name, client)
                  /\ task' = [task EXCEPT ![t] =
                                 [tk EXCEPT !.pc = "reg_list", !.client = client]]
                  /\ last' = NoEvent
                  /\ UNCHANGED <<services, remote>>

----------------------------------------------------------------------------
(* register_services_from_file: the loop over the definitions *)

\* A definition of the mcpServers mapping: its key, whether its value is a
\* mapping at all, and the value's "url" (NoUrl when absent or empty).  The
\* definitions carry no "description", and their "type" changes nothing but
\* a warning in the log.
Definitions ==
    {d \in [name : Names, mapping : BOOLEAN, url : Urls \cup {NoUrl}] :
        ~d.mapping => d.url = NoUrl}

\* The mcpServers mappings: the keys of a JSON object are distinct
Batches ==
    {<<>>}
    \cup {<<d>> : d \in Definitions}
    \cup {<<d, e>> : <<d, e>> \in {p \in Definitions \X Definitions :
                                      p[1].name # p[2].name}}

\* A loop that forgot the url check
MissingUrlNever(d) == FALSE

\* if not url
MissingUrl(d) == d.url = NoUrl

\* results[service_name] = True, after register_service returned
OnRegistered == TRUE

\* A handler that records the failed definition as registered
OnErrorTrue == TRUE

\* except Exception as e: results[service_name] = False
OnError == FALSE

\* A loop that stops at the first definition that fails (break for continue)
BatchSkipStops(defs, i, res, log, svcs) ==
    IF i > Len(defs)
    THEN [idx |-> i, results |-> res, log |-> log]
    ELSE LET d == defs[i]
             seen == Append(log, d.name)
         IN IF ~d.mapping \/ MissingUrl(d) \/ RegisterConflict(svcs, d.name)
            THEN [idx |-> Len(defs) + 1, results |-> DictSet(res, d.name, FALSE),
                  log |-> seen]
            ELSE [idx |-> i, results |-> res, log |-> seen]

\* The iterations that end without suspending, from definition i on: the
\* value is no mapping (service_config.get raises), the url is missing, or
\* register_service raises at its duplicate check; each is recorded False.
\* The result stops at the first definition whose registration suspends.
RECURSIVE BatchSkip(_, _, _, _, _)
BatchSkip(defs, i, res, log, svcs) ==
    IF i > Len(defs)
    THEN [idx |-> i, results |-> res, log |-> log]
    ELSE LET d == defs[i]
             seen == Append(log, d.name)
         IN IF ~d.mapping
            THEN BatchSkip(defs, i + 1, DictSet(res, d.name, OnError), seen, svcs)
            ELSE IF MissingUrl(d)
            THEN BatchSkip(defs, i + 1, DictSet(res, d.name, FALSE), seen, svcs)
            ELSE IF RegisterConflict(svcs, d.name)
            THEN BatchSkip(defs, i + 1, DictSet(res, d.name, OnError), seen, svcs)
            ELSE [idx |-> i, results |-> res, log |-> seen]

BatchReturn(t, tk, err) ==
    [op |-> "batch", task |-> t, err |-> err, defs |-> tk.defs,
     results |-> tk.results, log |-> tk.log, made |-> tk.made,
     listed |-> tk.listed, listok |-> tk.listok, pre |-> tk.pre]

\* The loop from definition tk.idx on, with the registry as svcs and cl:
\* it runs to the next list_tools call, or to the return of the results.
BatchResume(t, tk, svcs, cl) ==
    LET sk == BatchSkip(tk.defs, tk.idx, tk.results, tk.log, svcs)
        at == [tk EXCEPT !.idx = sk.idx, !.results = sk.results, !.log = sk.log]
    IN IF sk.idx > Len(tk.defs)
       THEN /\ services' = svcs
            /\ mcp_clients' = cl
            /\ task' = [task EXCEPT ![t] = IdleTask]
            /\ last' = BatchReturn(t, at, "ok")
       ELSE LET d == tk.defs[sk.idx]
                client == HttpStatelessClient(d.name, d.url)
            IN /\ services' = svcs
               /\ mcp_clients' = SetClient(cl, d.name, client)
               /\ task' = [task EXCEPT ![t] =
                              [at EXCEPT !.pc = "reg_list", !.svc = d.name,
                                         !.url = d.url, !.desc = NoDesc,
                                         !.client = client,
                                         !.made = @ \cup {d.name},
                                         !.listed = @ \cup {d.name}]]
               /\ last' = NoEvent

\* if not mcp_servers: raise ValueError; else the loop up to its first suspension
BatchStart(t, defs) ==
    /\ task[t].pc = "idle"
    /\ LET tk == [IdleTask EXCEPT !.op = "batch", !.defs = defs, !.idx = 1,
                                  !.pre = Snap]
       IN IF defs = <<>>
          THEN /\ last' = BatchReturn(t, tk, "MalformedSource")
               /\ UNCHANGED <<services, mcp_clients, task>>
          ELSE BatchResume(t, tk, services, mcp_clients)
    /\ UNCHANGED remote

----------------------------------------------------------------------------
(* list_tools answers: the rest of register_service, and of the loop *)

\* all_tools = await client.list_tools() returned; the ServiceInfo is built
\* and stored.  Called from the loop, results[service_name] = True follows.
RegisterListReturn(t) ==
    /\ task[t].pc = "reg_list"
    /\ task[t].client.url \in DOMAIN remote
    /\ LET tk == task[t]
           all_tools == remote[tk.client.url]
           svcs == DictSet(services, tk.svc, ServiceInfo(tk.svc, tk.desc, all_tools))
       IN IF tk.op = "register"
          THEN /\ services' = svcs
               /\ task' = [task EXCEPT ![t] = IdleTask]
               /\ last' = RegisterReturn(t, tk, "ok")
               /\ UNCHANGED mcp_clients
          ELSE BatchResume(t, [tk EXCEPT !.idx = @ + 1,
                                         !.results = DictSet(@, tk.svc, OnRegistered),
                                         !.listok = @ \cup {tk.svc},
                                         !.pc = "idle", !.client = NoClient],
                           svcs, mcp_clients)
    /\ UNCHANGED remote

\* await client.list_tools() raised: register_service has no handler, so the
\* error leaves it as it is; the loop catches it and records False.
RegisterListFail(t) ==
    /\ task[t].pc = "reg_list"
    /\ LET tk == task[t]
       IN IF tk.op = "register"
          THEN /\ task' = [task EXCEPT ![t] = IdleTask]
               /\ last' = RegisterReturn(t, tk, "ConnectionFailure")
               /\ UNCHANGED <<services, mcp_clients>>
          ELSE BatchResume(t, [tk EXCEPT !.idx = @ + 1,
                                         !.results = DictSet(@, tk.svc, OnError),
                                         !.pc = "idle", !.client = NoClient],
                           services, mcp_clients)
    /\ UNCHANGED remote

----------------------------------------------------------------------------
(* close_all, and the remote side *)

\* What close_all returns to, with what the step before it had returned
CloseReturn(t) == [op |-> "close", task |-> t, pre |-> Snap, after |-> last.op]

\* A close_all that forgot the clients
CloseAllKeepsClients(t) ==
    /\ task[t].pc = "idle"
    /\ services' = EmptyDict
    /\ last' = CloseReturn(t)
    /\ UNCHANGED <<mcp_clients, remote, task>>

\* self.mcp_clients.clear(); self.services.clear(): no await, one step
CloseAll(t) ==
    /\ task[t].pc = "idle"
    /\ mcp_clients' = NoClients
    /\ services' = EmptyDict
    /\ last' = CloseReturn(t)
    /\ UNCHANGED <<remote, task>>

\* The server at url u changes the tools it offers
RemoteChange(u, listing) ==
    /\ remote[u] # listing
    /\ remote' = [remote EXCEPT ![u] = listing]
    /\ last' = NoEvent
    /\ UNCHANGED <<services, mcp_clients, task>>

----------------------------------------------------------------------------
(* execute_tool *)

\* What the awaited calls can do.  An exception has its Python class, the
\* reason it was raised for, and its text.
Exc(cls, why, msg) == [cls |-> cls, why |-> why, msg |-> msg]

\* await client.get_callable_function(func_name=tool_name)
GetOutcomes ==
    { [kind |-> "fn"], [kind |-> "none"],
      [kind |-> "raise", exc |-> Exc("Exception", "get_failed", "get: no such tool")] }

\* A Python value: its type, its characters (of a str, or the digits of an
\* int) and its elements (of a list, a tuple or a set; of a dict, its items
\* in insertion order, each a key and a value)
PyVal(ty, s, items) == [ty |-> ty, s |-> s, items |-> items]

PyStr(s) == PyVal("str", s, <<>>)
PyInt(s) == PyVal("int", s, <<>>)
PyList(items) == PyVal("list", "", items)
PyTuple(items) == PyVal("tuple", "", items)
PySet(items) == PyVal("set", "", items)
PyItem(key, val) == PyVal("item", "", <<key, val>>)
PyDict(items) == PyVal("dict", "", items)
NoValue == PyVal("none", "", <<>>)

\* The values a tool can return: mappings (with text keys, with an integer
\* key, with a value json.dumps does not take), a list, a tuple, a text and
\* another scalar
Results ==
    { PyDict(<<PyItem(PyStr("a"), PyInt("5")),
               PyItem(PyStr("b"), PyList(<<PyStr("x")>>))>>),
      PyDict(<<PyItem(PyInt("1"), PyStr("x"))>>),
      PyDict(<<PyItem(PyStr("a"), PySet(<<>>))>>),
      PyList(<<PyStr("x"), PyInt("5")>>),
      PyTuple(<<PyStr("x"), PyInt("5")>>),
      PyStr("hello"),
      PyInt("5") }

\* A text is a sequence of tokens: the characters of a plain text are one
\* token; a JSON text has a token for each quoted string, number and
\* punctuation mark (the white space of indent=2 carries nothing and is
\* left out)
Tok(t, s) == [t |-> t, s |-> s]

RECURSIVE Serializable(_)
\* json.dumps takes str and int, lists and tuples of what it takes, and
\* dicts with str or int keys and values it takes
Serializable(v) ==
    CASE v.ty \in {"str", "int"} -> TRUE
      [] v.ty \in {"list", "tuple"} ->
            \A i \in DOMAIN v.items : Serializable(v.items[i])
      [] v.ty = "dict" ->
            \A i \in DOMAIN v.items :
                /\ v.items[i].items[1].ty \in {"str", "int"}
                /\ Serializable(v.items[i].items[2])
      [] OTHER -> FALSE

RECURSIVE dumps(_), dumpsItems(_, _)
\* json.dumps(result, ensure_ascii=False, indent=2): a list and a tuple are
\* both written as an array, and the key of a dict is written as a string,
\* an int key as the string of its digits
dumps(v) ==
    CASE v.ty = "str" -> <<Tok("string", v.s)>>
      [] v.ty = "int" -> <<Tok("number", v.s)>>
      [] v.ty \in {"list", "tuple"} ->
            <<Tok("mark", "[")>> \o dumpsItems(v.items, 1) \o <<Tok("mark", "]")>>
      [] v.ty = "dict" ->
            <<Tok("mark", "{")>> \o dumpsItems(v.items, 1) \o <<Tok("mark", "}")>>
      [] v.ty = "item" ->
            <<Tok("string", v.items[1].s), Tok("mark", ":")>> \o dumps(v.items[2])

dumpsItems(items, i) ==
    IF i > Len(items) THEN <<>>
    ELSE dumps(items[i])
         \o (IF i < Len(items) THEN <<Tok("mark", ",")>> ELSE <<>>)
         \o dumpsItems(items, i + 1)

\* str(result) of a scalar: the digits of an int
str(v) == <<Tok("plain", v.s)>>

\* await async_func(**input_data): input_data does not fit the tool's
\* parameters and is rejected with a TypeError; or the tool itself raises an
\* error, of any class; or it returns a value.
CallOutcomes ==
    { [kind |-> "value", value |-> r] : r \in Results }
    \cup { [kind |-> "raise", exc |-> Exc("TypeError", "param_mismatch", "unexpected argument")],
           [kind |-> "raise", exc |-> Exc("TypeError", "tool_error", "tool: bad operand")],
           [kind |-> "raise", exc |-> Exc("Exception", "tool_error", "tool: failed")] }

\* A normalization that writes a text result as JSON too
NormalizeDumpsText(r) ==
    IF r.ty \in {"dict", "list", "tuple", "str"}
    THEN IF Serializable(r)
         THEN [kind |-> "value", text |-> dumps(r)]
         ELSE [kind |-> "raise",
               exc |-> Exc("TypeError", "normalize_failed", "not JSON serializable")]
    ELSE [kind |-> "value", text |-> str(r)]

\* The if/elif chain on the type of result.  json.dumps raises TypeError on
\* a value it cannot serialize.
Normalize(r) ==
    IF r.ty \in {"dict", "list", "tuple"}
    THEN IF Serializable(r)
         THEN [kind |-> "value", text |-> dumps(r)]
         ELSE [kind |-> "raise",
               exc |-> Exc("TypeError", "normalize_failed", "not JSON serializable")]
    ELSE IF r.ty = "str"
    THEN [kind |-> "value", text |-> <<Tok("plain", r.s)>>]
    ELSE [kind |-> "value", text |-> str(r)]

\* except TypeError: raise ValueError(...); except Exception: raise RuntimeError(...)
Handler(exc) ==
    IF exc.cls = "TypeError"
    THEN [err |-> "ArgumentError", cls |-> "ValueError", why |-> exc.why, orig |-> exc.msg]
    ELSE [err |-> "ExecutionFailure", cls |-> "RuntimeError", why |-> exc.why, orig |-> exc.msg]

\* if service_name not in self.services
ServiceMissing(svc) == ~DictHas(services, svc)

\* A dispatcher that forgot the tool check
ToolMissingNever(svc, tool) == FALSE

\* if tool_name not in self.services[service_name].tools
ToolMissing(svc, tool) == ~DictHas(DictGet(services, svc).tools, tool)

\* What a front-end function gives its caller: a text (ToolResponse with a
\* TextBlock, or a str), the registry's list or dict as it is, or an
\* exception of a class
ToolResponse(what) == [kind |-> "text", what |-> what]
Data(what) == [kind |-> "data", what |-> what]
Raised(cls) == [kind |-> "raise", what |-> cls]

\* The classes that `except Exception` catches
IsException(cls) == cls \in {"ValueError", "RuntimeError", "TypeError", "KeyError", "Exception"}

\* agentscope_tool.execute_tool: try: result = await
\* mcp_manager.execute_tool(...); except (ValueError, RuntimeError); except
\* Exception, with the traceback.  out is what the registry returned or raised.
agentscope_execute_tool(out) ==
    IF out.err = "ok" THEN ToolResponse("result")
    ELSE IF out.cls \in {"ValueError", "RuntimeError"} THEN ToolResponse("failed")
    ELSE IF IsException(out.cls) THEN ToolResponse("unexpected")
    ELSE Raised(out.cls)

\* mcp_server.execute_tool: result = await mcp_manager.execute_tool(...);
\* return result, with no handler
mcp_server_execute_tool(out) ==
    IF out.err = "ok" THEN ToolResponse("result") ELSE Raised(out.cls)

\* What execute_tool returns or raises, with the function it had called and
\* the value that function gave it, and what each front end gives its
\* caller for it
InvokeReturn(t, tk, out, raw, text) ==
    [op |-> "invoke", task |-> t, svc |-> tk.svc, tool |-> tk.tool,
     err |-> out.err, cls |-> out.cls, why |-> out.why,
     orig |-> out.orig, text |-> text, nget |-> tk.nget, ncall |-> tk.ncall,
     of |-> tk.fn, raw |-> raw, pre |-> tk.pre,
     front |-> [agentscope |-> agentscope_execute_tool(out),
                mcp_server |-> mcp_server_execute_tool(out)]]

NotFound(err) == [err |-> err, cls |-> "ValueError", why |-> "not_found", orig |-> ""]
Success == [err |-> "ok", cls |-> "", why |-> "", orig |-> ""]
NoText == <<>>

\* The call up to its first suspension: the two presence checks, the lookup
\* of the client (a KeyError is caught by except Exception), and the wait
\* for get_callable_function.
InvokeStart(t, svc, tool) ==
    /\ task[t].pc = "idle"
    /\ LET tk == [IdleTask EXCEPT !.op = "invoke", !.svc = svc, !.tool = tool,
                                  !.pre = Snap]
       IN IF ServiceMissing(svc)
          THEN /\ last' = InvokeReturn(t, tk, NotFound("ServiceNotFound"), NoValue, NoText)
               /\ UNCHANGED task
          ELSE IF ToolMissing(svc, tool)
          THEN /\ last' = InvokeReturn(t, tk, NotFound("ToolNotFound"), NoValue, NoText)
               /\ UNCHANGED task
          ELSE IF svc \notin DOMAIN mcp_clients
          THEN /\ last' = InvokeReturn(t, tk,
                              Handler(Exc("KeyError", "no_client", svc)),
                              NoValue, NoText)
               /\ UNCHANGED task
          ELSE /\ task' = [task EXCEPT ![t] =
                              [tk EXCEPT !.pc = "inv_get",
                                         !.client = mcp_clients[svc],
                                         !.nget = @ + 1]]
               /\ last' = NoEvent
    /\ UNCHANGED <<services, mcp_clients, remote>>

\* client.get_callable_function(func_name=tool_name): the function of that
\* name on that client
get_callable_function(client, func_name) == [client |-> client, tool |-> func_name]

\* A dispatcher that drops the client of a service whose function it could
\* not get
InvokeGetReturnDropsClient(t, out) ==
    /\ task[t].pc = "inv_get"
    /\ LET tk == task[t]
       IN IF out.kind = "fn"
          THEN /\ task' = [task EXCEPT ![t] =
                              [tk EXCEPT !.pc = "inv_call", !.ncall = @ + 1,
                                         !.fn = get_callable_function(tk.client, tk.tool)]]
               /\ last' = [op |-> "issue", task |-> t, svc |-> tk.svc,
                           tool |-> tk.tool, client |-> tk.client]
               /\ UNCHANGED mcp_clients
          ELSE /\ task' = [task EXCEPT ![t] = IdleTask]
               /\ last' = InvokeReturn(t, tk,
                              Handler(IF out.kind = "none"
                                      THEN Exc("RuntimeError", "no_callable", "no callable")
                                      ELSE out.exc),
                              NoValue, NoText)
               /\ mcp_clients' = [k \in DOMAIN mcp_clients \ {tk.svc} |-> mcp_clients[k]]
    /\ UNCHANGED <<services, remote>>

\* get_callable_function answered.  With a function in hand the tool is
\* called, result = await async_func(**input_data), and the coroutine waits;
\* a falsy answer raises RuntimeError inside the try.
InvokeGetReturn(t, out) ==
    /\ task[t].pc = "inv_get"
    /\ LET tk == task[t]
       IN IF out.kind = "fn"
          THEN /\ task' = [task EXCEPT ![t] =
                              [tk EXCEPT !.pc = "inv_call", !.ncall = @ + 1,
                                         !.fn = get_callable_function(tk.client, tk.tool)]]
               /\ last' = [op |-> "issue", task |-> t, svc |-> tk.svc,
                           tool |-> tk.tool, client |-> tk.client]
          ELSE /\ task' = [task EXCEPT ![t] = IdleTask]
               /\ last' = InvokeReturn(t, tk,
                              Handler(IF out.kind = "none"
                                      THEN Exc("RuntimeError", "no_callable", "no callable")
                                      ELSE out.exc),
                              NoValue, NoText)
    /\ UNCHANGED <<services, mcp_clients, remote>>

\* A dispatcher that calls the tool once more when the call raised
InvokeCallReturnRetries(t, out) ==
    /\ task[t].pc = "inv_call"
    /\ LET tk == task[t]
           norm == IF out.kind = "value" THEN Normalize(out.value) ELSE out
       IN IF out.kind = "raise" /\ tk.ncall < 2
          THEN /\ task' = [task EXCEPT ![t] = [tk EXCEPT !.ncall = @ + 1]]
               /\ last' = [op |-> "issue", task |-> t, svc |-> tk.svc,
                           tool |-> tk.tool, client |-> tk.client]
          ELSE /\ task' = [task EXCEPT ![t] = IdleTask]
               /\ last' = IF norm.kind = "value"
                          THEN InvokeReturn(t, tk, Success, out.value, norm.text)
                          ELSE InvokeReturn(t, tk, Handler(norm.exc), NoValue, NoText)
    /\ UNCHANGED <<services, mcp_clients, remote>>

\* The tool call answered: its value is normalized and returned, or the
\* error it raised (or the one json.dumps raised) goes to the handlers.
InvokeCallReturn(t, out) ==
    /\ task[t].pc = "inv_call"
    /\ LET tk == task[t]
           norm == IF out.kind = "value" THEN Normalize(out.value) ELSE out
       IN /\ task' = [task EXCEPT ![t] = IdleTask]
          /\ last' = IF norm.kind = "value"
                     THEN InvokeReturn(t, tk, Success, out.value, norm.text)
                     ELSE InvokeReturn(t, tk, Handler(norm.exc), NoValue, NoText)
    /\ UNCHANGED <<services, mcp_clients, remote>>

----------------------------------------------------------------------------
(* The lookups: get_all_services, get_all_tools_by_service, get_tool_info *)

Value(v) == [kind |-> "value", value |-> v]

\* raise ValueError(f"...'{service_name}'..."): the names the text quotes,
\* and the list of alternatives it gives, if it gives one
NotFoundError(err, quoted, lists) ==
    [kind |-> "raise", err |-> err, cls |-> "ValueError", quoted |-> quoted,
     lists |-> lists]

\* A get_all_services that lists the newest service first
get_all_servicesNewestFirst(svcs) ==
    [i \in DOMAIN svcs |-> [name |-> svcs[Len(svcs) + 1 - i].k,
                            description |-> svcs[Len(svcs) + 1 - i].v.description]]

get_all_services(svcs) ==
    [i \in DOMAIN svcs |-> [name |-> svcs[i].k, description |-> svcs[i].v.description]]

get_all_tools_by_service(svcs, service_name) ==
    IF ~DictHas(svcs, service_name)
    THEN NotFoundError("ServiceNotFound", {service_name}, {})
    ELSE LET tools == DictGet(svcs, service_name).tools
         IN Value([i \in DOMAIN tools |->
                      [name |-> tools[i].k, description |-> tools[i].v.description]])

\* A get_tool_info that reports the name of the service as the tool's
get_tool_infoNamesService(svcs, service_name, tool_name) ==
    IF ~DictHas(svcs, service_name)
    THEN NotFoundError("ServiceNotFound", {service_name}, {})
    ELSE IF ~DictHas(DictGet(svcs, service_name).tools, tool_name)
    THEN NotFoundError("ToolNotFound", {service_name, tool_name}, {})
    ELSE LET tool == DictGet(DictGet(svcs, service_name).tools, tool_name)
         IN Value([name |-> service_name, description |-> tool.description,
                   inputSchema |-> tool.inputSchema])

get_tool_info(svcs, service_name, tool_name) ==
    IF ~DictHas(svcs, service_name)
    THEN NotFoundError("ServiceNotFound", {service_name}, {})
    ELSE IF ~DictHas(DictGet(svcs, service_name).tools, tool_name)
    THEN NotFoundError("ToolNotFound", {service_name, tool_name}, {})
    ELSE LET tool == DictGet(DictGet(svcs, service_name).tools, tool_name)
         IN Value([name |-> tool.name, description |-> tool.description,
                   inputSchema |-> tool.inputSchema])

\* try: return ToolResponse(json.dumps(...)); except Exception as e: return
\* ToolResponse(f"...: {str(e)}"), around a call of the registry that gave r
Try(r) ==
    IF r.kind = "value" THEN ToolResponse("result")
    ELSE IF IsException(r.cls) THEN ToolResponse("failed")
    ELSE Raised(r.cls)

\* agentscope_tool.get_all_mcp_services
agentscope_get_all_mcp_services(svcs) == Try(Value(get_all_services(svcs)))

\* agentscope_tool.get_service_tools: the name is checked against
\* get_all_services before get_all_tools_by_service is called
agentscope_get_service_tools(svcs, service_name) ==
    IF service_name = "" THEN ToolResponse("empty")
    ELSE IF get_all_services(svcs) = <<>> THEN ToolResponse("no_services")
    ELSE IF service_name \notin {get_all_services(svcs)[i].name : i \in DOMAIN svcs}
    THEN ToolResponse("not_found")
    ELSE Try(get_all_tools_by_service(svcs, service_name))

\* agentscope_tool.get_tool_info
agentscope_get_tool_info(svcs, service_name, tool_name) ==
    IF service_name = "" \/ tool_name = "" THEN ToolResponse("empty")
    ELSE Try(get_tool_info(svcs, service_name, tool_name))

\* return mcp_manager.<the same function>(...), with no handler: the value
\* goes through as it is, and so does the exception
Through(r) == IF r.kind = "value" THEN Data("result") ELSE Raised(r.cls)

\* mcp_server.get_all_services
mcp_server_get_all_services(svcs) == Through(Value(get_all_services(svcs)))

\* mcp_server.get_all_tools_by_service
mcp_server_get_all_tools_by_service(svcs, service_name) ==
    Through(get_all_tools_by_service(svcs, service_name))

\* mcp_server.get_tool_info
mcp_server_get_tool_info(svcs, service_name, tool_name) ==
    Through(get_tool_info(svcs, service_name, tool_name))

\* What a lookup returns or raises, and what each front end gives its
\* caller for the same request on the same registry
LookupReturn(t, fn, svc, tool, out) ==
    [op |-> "lookup", task |-> t, fn |-> fn, svc |-> svc, tool |-> tool, out |-> out,
     front |->
        IF fn = "get_all_services"
        THEN [agentscope |-> agentscope_get_all_mcp_services(services),
              mcp_server |-> mcp_server_get_all_services(services)]
        ELSE IF fn = "get_all_tools_by_service"
        THEN [agentscope |-> agentscope_get_service_tools(services, svc),
              mcp_server |-> mcp_server_get_all_tools_by_service(services, svc)]
        ELSE [agentscope |-> agentscope_get_tool_info(services, svc, tool),
              mcp_server |-> mcp_server_get_tool_info(services, svc, tool)]]

\* A lookup is one step: no await
GetAllServices(t) ==
    /\ task[t].pc = "idle"
    /\ last' = LookupReturn(t, "get_all_services", "", "", Value(get_all_services(services)))
    /\ UNCHANGED <<services, mcp_clients, remote, task>>

GetAllToolsByService(t, svc) ==
    /\ task[t].pc = "idle"
    /\ last' = LookupReturn(t, "get_all_tools_by_service", svc, "",
                            get_all_tools_by_service(services, svc))
    /\ UNCHANGED <<services, mcp_clients, remote, task>>

GetToolInfo(t, svc, tool) ==
    /\ task[t].pc = "idle"
    /\ last' = LookupReturn(t, "get_tool_info", svc, tool,
                            get_tool_info(services, svc, tool))
    /\ UNCHANGED <<services, mcp_clients, remote, task>>

----------------------------------------------------------------------------
(* The specifications *)

Init ==
    /\ services = EmptyDict
    /\ mcp_clients = NoClients
    /\ remote \in [Urls -> Listings]
    /\ task = [t \in Tasks |-> IdleTask]
    /\ last = NoEvent

\* A caller starts one of the single operations, on a service of S
Single(t, S) ==
    \/ \E name \in S, url \in Urls, desc \in Descs : RegisterStart(t, name, url, desc)
    \/ \E svc \in S, tool \in ToolNames : InvokeStart(t, svc, tool)
    \/ CloseAll(t)
    \/ GetAllServices(t)
    \/ \E svc \in S : GetAllToolsByService(t, svc)
    \/ \E svc \in S, tool \in ToolNames : GetToolInfo(t, svc, tool)

\* A caller starts a registration, single or from a file
Bulk(t) ==
    \/ \E name \in Names, url \in Urls : RegisterStart(t, name, url, NoDesc)
    \/ \E defs \in Batches : BatchStart(t, defs)
    \/ CloseAll(t)

\* list_tools answers
Listing(t) ==
    \/ RegisterListReturn(t)
    \/ RegisterListFail(t)

\* A suspended coroutine is resumed
Resume(t) ==
    \/ Listing(t)
    \/ \E out \in GetOutcomes : InvokeGetReturn(t, out)
    \/ \E out \in CallOutcomes : InvokeCallReturn(t, out)

Environment == \E u \in Urls, listing \in Listings : RemoteChange(u, listing)

\* Operations that do not overlap: coroutine 1 is the only caller, and it
\* starts an operation only when the one before has returned.
Next ==
    \/ Single(1, Names)
    \/ Resume(1)
    \/ Environment

Spec == Init /\ [][Next]_vars

\* The same, with register_services_from_file in place of execute_tool
NextBatch ==
    \/ Bulk(1)
    \/ Listing(1)
    \/ Environment

SpecBatch == Init /\ [][NextBatch]_vars

\* Every list_tools call eventually returns or fails
FairBatch == SpecBatch /\ WF_vars(Listing(1))

\* Operations that overlap: any idle coroutine may start one at any time.
\* The coroutines work on one service name, where the overlaps meet.
NextConc ==
    \/ \E t \in Tasks : Single(t, {"s1"})
    \/ \E t \in Tasks : Resume(t)
    \/ Environment

SpecConc == Init /\ [][NextConc]_vars

----------------------------------------------------------------------------
(* The registry as a call found it and as it is now *)

SameRegistry(pre) == services = pre.services /\ mcp_clients = pre.mcp_clients

Registered(svcs, svc) == DictHas(svcs, svc)

InCatalog(svcs, svc, tool) ==
    Registered(svcs, svc) /\ DictHas(DictGet(svcs, svc).tools, tool)

NamesOf(defs) == [i \in DOMAIN defs |-> defs[i].name]

----------------------------------------------------------------------------
(* C1 *)

\* C1: register_service called with a name that is already registered fails
\* with NameConflict, and the registry (the entry of that name with its
\* description and catalog, and its client) is after the call as before it.
C1_DuplicateRejected ==
    (last.op = "register" /\ Registered(last.pre.services, last.svc))
        => /\ last.err = "NameConflict"
           /\ SameRegistry(last.pre)

C1_Witness ==
    /\ last.op = "register"
    /\ last.err = "NameConflict"
    /\ Registered(services, last.svc)
    /\ last.svc \in DOMAIN mcp_clients

----------------------------------------------------------------------------
(* C2 *)

\* C2: when register_service fails because list_tools failed, the registry
\* is as it was before the call: no catalog entry and no client for the name
\* remains.
C2_FailedListingLeavesNothing ==
    (last.op = "register" /\ last.err = "ConnectionFailure")
        => /\ SameRegistry(last.pre)
           /\ ~Registered(services, last.svc)
           /\ last.svc \notin DOMAIN mcp_clients

----------------------------------------------------------------------------
(* C3 *)

\* C3: execute_tool on a service that is not registered fails with
\* ServiceNotFound, and on a registered service without the tool with
\* ToolNotFound; in both cases it asked no client for a function, called no
\* tool, and left the registry as it was.
C3_NotFoundBeforeAnyCall ==
    last.op = "invoke"
        => /\ ~Registered(last.pre.services, last.svc)
                => /\ last.err = "ServiceNotFound"
                   /\ last.nget = 0 /\ last.ncall = 0
                   /\ SameRegistry(last.pre)
           /\ (/\ Registered(last.pre.services, last.svc)
               /\ ~InCatalog(last.pre.services, last.svc, last.tool))
                => /\ last.err = "ToolNotFound"
                   /\ last.nget = 0 /\ last.ncall = 0
                   /\ SameRegistry(last.pre)

C3_Witness ==
    /\ last.op = "invoke"
    /\ last.err = "ToolNotFound"
    /\ Registered(services, last.svc)
    /\ ~InCatalog(services, last.svc, last.tool)

----------------------------------------------------------------------------
(* C4 *)

\* C4: at the moment execute_tool issues the remote tool call, the (service,
\* tool) pair it calls is in the catalog, whatever register_service and
\* close_all calls ran while it waited for get_callable_function.
C4_CalledPairInCatalog ==
    last.op = "issue" => InCatalog(services, last.svc, last.tool)

----------------------------------------------------------------------------
(* C5 *)

\* C5 as stated: when register_services_from_file returns, the keys of the
\* result are the names of the definitions, and the value of a name is True
\* if and only if the service is in the registry.
C5_TrueIffPresent ==
    (last.op = "batch" /\ last.err = "ok")
        => /\ KeyList(last.results) = NamesOf(last.defs)
           /\ \A n \in DictKeys(last.results) :
                 DictGet(last.results, n) = Registered(services, n)

\* C5 as amended: the keys of the result are the names of the definitions,
\* one entry each, and the value of a name is True if and only if this call
\* registered it: the service is in the registry and was not before the call.
C5_TrueIffRegisteredByCall ==
    (last.op = "batch" /\ last.err = "ok")
        => /\ KeyList(last.results) = NamesOf(last.defs)
           /\ \A n \in DictKeys(last.results) :
                 DictGet(last.results, n) =
                    (Registered(services, n) /\ ~Registered(last.pre.services, n))

C5_Witness ==
    /\ last.op = "batch"
    /\ last.err = "ok"
    /\ \E n, m \in DictKeys(last.results) :
          /\ Registered(last.pre.services, n)
          /\ ~DictGet(last.results, n)
          /\ DictGet(last.results, m)
          /\ Registered(services, m)

----------------------------------------------------------------------------
(* C6 *)

\* What the loop has done when it returns: it went through the definitions
\* once each, in their order; it called list_tools for every definition that
\* is a mapping with a url and a name not registered yet, whatever happened
\* to the definitions before it; and it recorded True for the definitions
\* whose listing succeeded and False for all the others.
BatchComplete ==
    (last.op = "batch" /\ last.err = "ok")
        => /\ last.log = NamesOf(last.defs)
           /\ last.listed =
                 {last.defs[i].name : i \in
                     {j \in DOMAIN last.defs :
                         /\ last.defs[j].mapping
                         /\ last.defs[j].url # NoUrl
                         /\ ~Registered(last.pre.services, last.defs[j].name)}}
           /\ \A i \in DOMAIN last.defs :
                 DictGet(last.results, last.defs[i].name)
                    = (last.defs[i].name \in last.listok)

\* C6: register_services_from_file attempts every definition once, in the
\* order of the source; a definition that fails is recorded False and does
\* not keep a later one from being attempted; and the call returns its
\* results, given that every list_tools call returns or fails.
C6_AllAttemptedAndReturns ==
    /\ []BatchComplete
    /\ (task[1].op = "batch") ~> (last.op = "batch")

C6_Witness ==
    /\ last.op = "batch"
    /\ Len(last.defs) = 2
    /\ last.defs[1].name \in last.listed \ last.listok
    /\ ~DictGet(last.results, last.defs[1].name)
    /\ DictGet(last.results, last.defs[2].name)

----------------------------------------------------------------------------
(* C7 *)

SameEntry(pre, n) ==
    /\ Registered(services, n) <=> Registered(pre.services, n)
    /\ Registered(services, n) => DictGet(services, n) = DictGet(pre.services, n)
    /\ n \in DOMAIN mcp_clients <=> n \in DOMAIN pre.mcp_clients
    /\ n \in DOMAIN mcp_clients => mcp_clients[n] = pre.mcp_clients[n]

\* C7: a definition without a url is recorded False and skipped: no client is
\* built for it, list_tools is not called for it, and the registry holds for
\* its name what it held before the call; every other definition of the
\* batch whose listing succeeded is registered and recorded True.
C7_MissingUrlSkipped ==
    (last.op = "batch" /\ last.err = "ok")
        => \A i \in DOMAIN last.defs :
              last.defs[i].url = NoUrl
                 => /\ ~DictGet(last.results, last.defs[i].name)
                    /\ last.defs[i].name \notin last.made
                    /\ last.defs[i].name \notin last.listed
                    /\ SameEntry(last.pre, last.defs[i].name)
                    /\ \A m \in last.listok :
                          Registered(services, m) /\ DictGet(last.results, m)

C7_Witness ==
    /\ last.op = "batch"
    /\ Len(last.defs) = 2
    /\ last.defs[1].mapping
    /\ last.defs[1].url = NoUrl
    /\ last.defs[2].name \in last.listok
    /\ Registered(services, last.defs[2].name)
    /\ ~Registered(services, last.defs[1].name)

----------------------------------------------------------------------------
(* C8 *)

PassedChecks ==
    last.op = "invoke" /\ last.err \notin {"ServiceNotFound", "ToolNotFound"}

\* C8: an execute_tool call that passed the checks fails with ArgumentError
\* exactly when the tool call rejected the arguments as a parameter
\* mismatch, and with ExecutionFailure for every other failure.
C8_ArgumentErrorOnlyForMismatch ==
    (PassedChecks /\ last.err # "ok")
        => IF last.why = "param_mismatch"
           THEN last.err = "ArgumentError"
           ELSE last.err = "ExecutionFailure"

----------------------------------------------------------------------------
(* C9 *)

\* C9 as stated: every execute_tool call that passed the checks made exactly
\* one remote tool call.
C9_ExactlyOneRoundTrip == PassedChecks => last.ncall = 1

\* C9 as amended: an execute_tool call that passed the checks asks its client
\* for the function at most once and makes at most one remote tool call: one
\* when it got the function, none when it found no client or when
\* get_callable_function raised or gave nothing; a tool call that failed is
\* not made again.
C9_AtMostOneCall ==
    PassedChecks
        => /\ last.nget = (IF last.why = "no_client" THEN 0 ELSE 1)
           /\ last.ncall =
                 (IF last.why \in {"no_client", "get_failed", "no_callable"}
                  THEN 0 ELSE 1)

C9_Witness ==
    /\ PassedChecks
    /\ last.why = "tool_error"
    /\ last.ncall = 1

----------------------------------------------------------------------------
(* C10 *)

\* C10: once a service is registered, every step of an operation other than
\* close_all leaves it registered and leaves what get_all_tools_by_service
\* and get_tool_info return for it as it was, whatever the remote server
\* offers by now.
C10_CatalogFixedAtRegistration ==
    [][\A S \in Names :
          (Registered(services, S) /\ last'.op # "close")
             => /\ Registered(services', S)
                /\ get_all_tools_by_service(services', S)
                      = get_all_tools_by_service(services, S)
                /\ \A T \in ToolNames :
                      get_tool_info(services', S, T) = get_tool_info(services, S, T)]_vars

\* A second registration of S was rejected while the server offers t2, which
\* the catalog of S does not have
C10_Witness ==
    /\ last.op = "register"
    /\ last.err = "NameConflict"
    /\ ~InCatalog(services, last.svc, "t2")
    /\ \E u \in Urls : \E i \in DOMAIN remote[u] : remote[u][i].name = "t2"

----------------------------------------------------------------------------
(* C11 *)

\* C11: close_all returns from every registry state and leaves no catalog
\* entry and no client; called again right after, it leaves the same empty
\* registry; get_all_services gives the empty list after each call.
C11_CloseAllEmpties ==
    last.op = "close"
        => /\ services = EmptyDict
           /\ mcp_clients = NoClients
           /\ get_all_services(services) = <<>>
           /\ last.after = "close"
                 => last.pre = [services |-> EmptyDict, mcp_clients |-> NoClients]

\* The second of two close_all calls in a row has returned
C11_Witness ==
    /\ last.op = "close"
    /\ last.after = "close"
    /\ services = EmptyDict
    /\ mcp_clients = NoClients

----------------------------------------------------------------------------
(* C12 *)

\* The names get_all_services lists, in its order
ListedNames(svcs) == [i \in DOMAIN get_all_services(svcs) |-> get_all_services(svcs)[i].name]

\* C12: over non-overlapping register_service and close_all calls,
\* get_all_services lists exactly the registered services, each once, in the
\* order their registrations succeeded since the last close_all: the list is
\* empty at the start and after a close_all, a registration that succeeds
\* puts its service at the end, and no other step (a duplicate, a failed
\* listing, a lookup) changes the list.
C12_ListedInRegistrationOrder ==
    /\ ListedNames(services) = <<>>
    /\ [](/\ {ListedNames(services)[i] : i \in DOMAIN ListedNames(services)}
                = DictKeys(services)
          /\ \A i, j \in DOMAIN ListedNames(services) :
                ListedNames(services)[i] = ListedNames(services)[j] => i = j
          /\ (last.op = "lookup" /\ last.fn = "get_all_services")
                => last.out = Value(get_all_services(services)))
    /\ [][IF last'.op = "close"
          THEN ListedNames(services') = <<>>
          ELSE IF last'.op = "register" /\ last'.err = "ok"
          THEN ListedNames(services') = Append(ListedNames(services), last'.svc)
          ELSE get_all_services(services') = get_all_services(services)]_vars

\* get_all_services has returned two services, the one registered first
\* being the later one in name order
C12_Witness ==
    /\ last.op = "lookup"
    /\ last.fn = "get_all_services"
    /\ last.out.kind = "value"
    /\ Len(last.out.value) = 2
    /\ last.out.value[1].name = "s2"
    /\ last.out.value[2].name = "s1"

----------------------------------------------------------------------------
(* C13 *)

\* C13: in every registry state, for every service S and tool T:
\* get_tool_info(S, T) fails with ServiceNotFound when S is not registered,
\* fails with ToolNotFound when S is registered and T is not in its catalog,
\* and otherwise returns a record whose name is T, also when the listing the
\* catalog was built from had several tools of that name; a get_tool_info
\* call that has returned has returned just that.
C13_ToolInfoNamesTool ==
    /\ \A S \in Names, T \in ToolNames :
          LET r == get_tool_info(services, S, T)
          IN IF ~Registered(services, S)
             THEN r.kind = "raise" /\ r.err = "ServiceNotFound"
             ELSE IF ~InCatalog(services, S, T)
             THEN r.kind = "raise" /\ r.err = "ToolNotFound"
             ELSE r.kind = "value" /\ r.value.name = T
    /\ (last.op = "lookup" /\ last.fn = "get_tool_info")
          => last.out = get_tool_info(services, last.svc, last.tool)

\* get_tool_info has returned the record of a tool whose name came twice in
\* the remote listing: the later of the two tools, under the name asked for
C13_Witness ==
    /\ last.op = "lookup"
    /\ last.fn = "get_tool_info"
    /\ last.out.kind = "value"
    /\ last.out.value.name = last.tool
    /\ last.out.value.description = "d2"

----------------------------------------------------------------------------
(* C14 *)

\* A step of an execute_tool call: the call starts and suspends, calls the
\* tool, or returns
InvokeStep ==
    \/ last'.op \in {"invoke", "issue"}
    \/ \E t \in Tasks : task[t].op # "invoke" /\ task'[t].op = "invoke"

\* C14: no step of an execute_tool call, returning a result or any error,
\* changes the catalog entries or the clients; and with any number of calls
\* in flight, on the same or on different tools, a call that succeeds
\* returns the normalized form of the value given by the function it got
\* itself, for its own tool on the client of its own service.
C14_InvokeLeavesRegistry ==
    /\ [][InvokeStep => (services' = services /\ mcp_clients' = mcp_clients)]_vars
    /\ []((last.op = "invoke" /\ last.err = "ok")
            => /\ last.of = get_callable_function(last.pre.mcp_clients[last.svc],
                                                  last.tool)
               /\ last.raw \in Results
               /\ Normalize(last.raw) = [kind |-> "value", text |-> last.text])

\* A call has returned its result while another call, on the same service,
\* is waiting for its tool
C14_Witness ==
    /\ last.op = "invoke"
    /\ last.err = "ok"
    /\ last.text # NoText
    /\ \E t \in Tasks :
          /\ t # last.task
          /\ task[t].pc = "inv_call"
          /\ task[t].svc = last.svc

----------------------------------------------------------------------------
(* C15 *)

RECURSIVE loadsValue(_, _), loadsItems(_, _, _, _)
\* Parsing a JSON text back (json.loads): the value that starts at token i
\* and the place after it.  An array is read as a list, an object as a dict
\* whose keys are texts.
loadsValue(text, i) ==
    CASE text[i].t = "string" -> [val |-> PyStr(text[i].s), next |-> i + 1]
      [] text[i].t = "number" -> [val |-> PyInt(text[i].s), next |-> i + 1]
      [] text[i] = Tok("mark", "[") -> loadsItems(text, i + 1, "list", <<>>)
      [] text[i] = Tok("mark", "{") -> loadsItems(text, i + 1, "dict", <<>>)

loadsItems(text, i, ty, acc) ==
    IF text[i] \in {Tok("mark", "]"), Tok("mark", "}")}
    THEN [val |-> PyVal(ty, "", acc), next |-> i + 1]
    ELSE IF text[i] = Tok("mark", ",")
    THEN loadsItems(text, i + 1, ty, acc)
    ELSE IF ty = "dict"
    THEN LET v == loadsValue(text, i + 2)
         IN loadsItems(text, v.next, ty, Append(acc, PyItem(PyStr(text[i].s), v.val)))
    ELSE LET v == loadsValue(text, i)
         IN loadsItems(text, v.next, ty, Append(acc, v.val))

loads(text) == loadsValue(text, 1).val

RECURSIVE AsJson(_)
\* The value as JSON can hold it: a tuple as a list, the int key of a dict
\* as the text of its digits
AsJson(v) ==
    CASE v.ty \in {"list", "tuple"} ->
            PyList([i \in DOMAIN v.items |-> AsJson(v.items[i])])
      [] v.ty = "dict" ->
            PyDict([i \in DOMAIN v.items |->
                       PyItem(PyStr(v.items[i].items[1].s), AsJson(v.items[i].items[2]))])
      [] OTHER -> v

IsText(text) == \A i \in DOMAIN text : text[i].t \in {"plain", "string", "number", "mark"}

\* C15: the result of a successful execute_tool is text; when the tool gave
\* a dict, a list or a tuple, the text parses back to a value equal to the
\* one the tool gave; when it gave a text, the text is returned unchanged;
\* anything else is returned as its string form.
C15_ParsesBackEqual ==
    (last.op = "invoke" /\ last.err = "ok")
        => /\ IsText(last.text) /\ last.text # NoText
           /\ IF last.raw.ty \in {"dict", "list", "tuple"}
              THEN loads(last.text) = last.raw
              ELSE IF last.raw.ty = "str"
              THEN last.text = <<Tok("plain", last.raw.s)>>
              ELSE last.text = str(last.raw)

\* C15 amended: as above, but the text of a dict, list or tuple parses back
\* to the JSON form of the value (a tuple comes back as the list of its
\* elements, an int key as the text of its digits), which is equal to the
\* value itself when it is made of dicts with text keys, lists, texts and
\* ints only.
C15_ParsesBackAsJson ==
    (last.op = "invoke" /\ last.err = "ok")
        => /\ IsText(last.text) /\ last.text # NoText
           /\ IF last.raw.ty \in {"dict", "list", "tuple"}
              THEN /\ loads(last.text) = AsJson(last.raw)
                   /\ AsJson(last.raw) = last.raw => loads(last.text) = last.raw
              ELSE IF last.raw.ty = "str"
              THEN last.text = <<Tok("plain", last.raw.s)>>
              ELSE last.text = str(last.raw)

\* A call has returned the text of a tuple, which parses back to the list
\* of the tuple's elements
C15_Witness ==
    /\ last.op = "invoke"
    /\ last.err = "ok"
    /\ last.raw.ty = "tuple"
    /\ loads(last.text) = PyList(last.raw.items)
    /\ loads(last.text) # last.raw

----------------------------------------------------------------------------
(* C16 *)

\* C16: when get_all_tools_by_service or get_tool_info fails with a
\* not-found error, the error names the service or the tool asked for and
\* lists the valid alternatives: the registered service names when the
\* service is missing, the tool names of the service when the tool is.
C16_NotFoundListsAlternatives ==
    (last.op = "lookup" /\ last.out.kind = "raise")
        => IF last.out.err = "ServiceNotFound"
           THEN /\ last.svc \in last.out.quoted
                /\ last.out.lists = DictKeys(services)
           ELSE /\ last.tool \in last.out.quoted
                /\ last.out.lists = DictKeys(DictGet(services, last.svc).tools)

----------------------------------------------------------------------------
(* C17 *)

\* C17: for every outcome of a lookup or of execute_tool, the function of
\* each of the two front ends (the agentscope tools and the FastMCP server)
\* returns to its caller, and what it returns for an error of the registry
\* is a text: no error of the registry leaves a front-end function as an
\* exception.
C17_FrontEndsReturnText ==
    last.op \in {"lookup", "invoke"}
        => /\ last.front.agentscope.kind = "text"
           /\ last.front.mcp_server.kind # "raise"

----------------------------------------------------------------------------
(* C18 *)

\* C18: in every state, also when close_all has run while a register_service
\* call was waiting for list_tools, every service with a catalog entry has
\* a client, so an execute_tool call that passed the service and tool checks
\* never fails to find the client of its service.
C18_EntryHasClient ==
    /\ DictKeys(services) \subseteq DOMAIN mcp_clients
    /\ ~(last.op = "invoke" /\ last.why = "no_client")

----------------------------------------------------------------------------
(* C19 *)

\* C19: when register_service calls for the same name overlap, at most one
\* succeeds: a call that returns successfully did not find the name
\* registered when it resumed; and the entry and the client of a registered
\* name are replaced by nothing but close_all.
C19_OverlapAtMostOneSucceeds ==
    [][/\ (last'.op = "register" /\ last'.err = "ok")
            => ~Registered(services, last'.svc)
       /\ \A n \in Names :
            (Registered(services, n) /\ last'.op # "close")
                => /\ Registered(services', n)
                   /\ DictGet(services', n) = DictGet(services, n)
                   /\ n \in DOMAIN mcp_clients /\ n \in DOMAIN mcp_clients'
                   /\ mcp_clients'[n] = mcp_clients[n]]_vars

----------------------------------------------------------------------------
(* C20 *)

\* C20: a register_service call for a name that an earlier call, failed at
\* list_tools, left a client for without an entry is not rejected with
\* NameConflict; when its listing succeeds the name is registered and the
\* client held for it is the new one this call made, not the one left
\* behind; and the client execute_tool calls the tool on is the one held.
C20_RetryInstallsOwnClient ==
    /\ (/\ last.op = "register"
        /\ last.svc \in DOMAIN last.pre.mcp_clients
        /\ ~Registered(last.pre.services, last.svc))
          => /\ last.err # "NameConflict"
             /\ last.err = "ok"
                   => /\ Registered(services, last.svc)
                      /\ mcp_clients[last.svc] = last.client
                      /\ last.client # last.pre.mcp_clients[last.svc]
    /\ last.op = "issue" => mcp_clients[last.svc] = last.client

\* A tool has been called on the client made by a registration that
\* followed a failed one of the same name
C20_Witness ==
    /\ last.op = "issue"
    /\ last.client.id = 2
    /\ mcp_clients[last.svc] = last.client
    /\ Registered(services, last.svc)

====
